---- MODULE Spec2Model ----
EXTENDS Integers, Sequences, FiniteSets, TLC

(***************************************************************************)
(* State-machine model of ClarityController (src/framer.tsx, lines 675 to  *)
(* 1262): the frame scheduler, the asynchronous media loads, the render    *)
(* target sizing and the pause / resume / dispose life cycle.              *)
(*                                                                         *)
(* Units.  Fractions are kept as integers: refrostRate in billionths       *)
(* (0.003 is 3000000), brushSize and the visual options in millionths      *)
(* (0.30 is 300000), brush sizes in millionths of a pixel, pointer         *)
(* positions in thousandths of a pixel (-1000 px is -1000000), pixel       *)
(* ratios in tenths, times in milliseconds.  A division of the source is   *)
(* the integer division of these scaled values.                            *)
(*                                                                         *)
(* The simulation field is stored in 8-bit render targets: a texel holds   *)
(* three bytes (clear, water, drip), 255 standing for 1.0.  The physics    *)
(* shader computes in units of a thousandth of a byte step (One is 1.0)    *)
(* and the frame buffer rounds what it writes to the nearest byte.         *)
(*                                                                         *)
(* Each public method and each private helper of the class is an operator  *)
(* from a state record to a state record; an action applies the operator   *)
(* of one entry point (a host call, a browser callback, a load settling)   *)
(* to the current state.                                                   *)
(***************************************************************************)

\* ---- program constants (static members of ClarityController) ----
DOWNSAMPLE_FACTOR == 8
PHYSICS_DOWNSAMPLE_FACTOR == 4
IDLE_TIMEOUT == 2000
IDLE_FRAME_INTERVAL == 100

\* ---- bounds of the model ----
MaxRequests == 2
MaxFrames == 3
\* tick bodies in a run of the parameter smoothing
MaxSmoothingTicks == 60
MaxTimeSteps == 1
TimeStep == 2500
MaxNow == MaxTimeSteps * TimeStep

\* ---- inputs ----
\* resize(width, height, pixelRatio): viewports the host reports
Viewports == {<<0, 16>>, <<16, 0>>, <<16, 6>>, <<6, 6>>}
PixelRatios == {10}
\* window.devicePixelRatio, in tenths
DevicePixelRatio == 20
\* the tunable options of setProps: Clarity.defaultProps and a second setting
DefaultSetting ==
    [refrostRate |-> 3000000, brushSize |-> 300000, chromaticAberration |-> 10000,
     reflectivity |-> 200000, blurBrightness |-> 1200000]
PropSettings ==
    {DefaultSetting,
     [refrostRate |-> 5000000, brushSize |-> 100000, chromaticAberration |-> 20000,
      reflectivity |-> 500000, blurBrightness |-> 1200000]}
MediaTypes == {"image", "video"}
\* "" stands for an undefined url
ImageUrls == {"", "a", "b"}
VideoUrls == {"", "v"}
\* native resolutions a decoded medium may have
MediaResolutions == {<<4, 2>>, <<32, 16>>}
\* canvas-local pointer positions (thousandths of a pixel, y from the bottom)
PointerPositions == {<<8000, 3000>>}

\* ---- simulation field ----
\* THREE.UnsignedByteType: the largest value of a channel of a render target
ByteMax == 255
\* 1.0 in the units of the shader arithmetic
One == ByteMax * 1000

\* ---- null values ----
NoHandle == 0
NoVideo == 0
NoTexture == [req |-> 0, resized |-> FALSE]

Min(a, b) == IF a < b THEN a ELSE b
Max(a, b) == IF a > b THEN a ELSE b

\* Math.round(n / d) for n >= 0, d > 0: the nearest integer, halves up
RoundDiv(n, d) == (2 * n + d) \div (2 * d)

lerp_jump(x, y, num, den) == y

lerp_slower(x, y, num, den) == x + ((y - x) * num) \div (den + num)

\* THREE.MathUtils.lerp(x, y, t) with t = num / den
lerp(x, y, num, den) == x + ((y - x) * num) \div den

Abs(a) == IF a < 0 THEN -a ELSE a

\* the integer part of the square root of n, searched between lo and hi
RECURSIVE isqrt(_, _, _)
isqrt(n, lo, hi) ==
    IF lo >= hi THEN lo
    ELSE LET mid == (lo + hi + 1) \div 2
         IN IF mid * mid <= n THEN isqrt(n, mid, hi) ELSE isqrt(n, lo, mid - 1)

sqrt(n) == isqrt(n, 0, Min(n, 46340))

VARIABLES
    \* ClarityController fields
    isCancelled, isPaused, isIdle, isMouseActive, hasSizedOnce, isMediaReady,
    animationFrameId, loadMediaRequestId, mediaState, videoElement,
    lastInteractionTime, mousePosition, smoothedMouse, targetProps, animatedProps,
    listening, released,
    \* renderer and shader uniforms
    rendererSize, pixelRatio, mainMaterial, copyMaterial, physicsMaterial, blurMaterial,
    \* render targets
    physicsRenderTargetA, physicsRenderTargetB, sceneRenderTarget,
    blurRenderTargetA, blurRenderTargetB,
    \* environment: browser scheduler, clock, loads in flight, GPU textures
    scheduled, now, inflight, disposed,
    \* observation of the last operation
    frame, calls, passes, ev, wasIdle,
    \* observation across operations
    runningAtPause, viewportInvalid, lastPointerEvent, retarget

vars == <<isCancelled, isPaused, isIdle, isMouseActive, hasSizedOnce, isMediaReady,
          animationFrameId, loadMediaRequestId, mediaState, videoElement,
          lastInteractionTime, mousePosition, smoothedMouse, targetProps, animatedProps,
          listening, released,
          rendererSize, pixelRatio, mainMaterial, copyMaterial, physicsMaterial, blurMaterial,
          physicsRenderTargetA, physicsRenderTargetB, sceneRenderTarget,
          blurRenderTargetA, blurRenderTargetB,
          scheduled, now, inflight, disposed,
          frame, calls, passes, ev, wasIdle,
          runningAtPause, viewportInvalid, lastPointerEvent, retarget>>

\* the current state as one record
St ==
    [isCancelled |-> isCancelled, isPaused |-> isPaused, isIdle |-> isIdle,
     isMouseActive |-> isMouseActive, hasSizedOnce |-> hasSizedOnce,
     isMediaReady |-> isMediaReady, animationFrameId |-> animationFrameId,
     loadMediaRequestId |-> loadMediaRequestId, mediaState |-> mediaState,
     videoElement |-> videoElement, lastInteractionTime |-> lastInteractionTime,
     mousePosition |-> mousePosition, smoothedMouse |-> smoothedMouse,
     targetProps |-> targetProps, animatedProps |-> animatedProps,
     listening |-> listening, released |-> released,
     rendererSize |-> rendererSize, pixelRatio |-> pixelRatio,
     mainMaterial |-> mainMaterial, copyMaterial |-> copyMaterial,
     physicsMaterial |-> physicsMaterial, blurMaterial |-> blurMaterial,
     physicsRenderTargetA |-> physicsRenderTargetA,
     physicsRenderTargetB |-> physicsRenderTargetB,
     sceneRenderTarget |-> sceneRenderTarget,
     blurRenderTargetA |-> blurRenderTargetA, blurRenderTargetB |-> blurRenderTargetB,
     scheduled |-> scheduled, now |-> now, inflight |-> inflight,
     disposed |-> disposed,
     frame |-> frame, calls |-> calls, passes |-> passes, ev |-> ev,
     wasIdle |-> wasIdle,
     runningAtPause |-> runningAtPause, viewportInvalid |-> viewportInvalid,
     lastPointerEvent |-> lastPointerEvent, retarget |-> retarget]

\* the next state is the record s, within the bounds of the model and with at
\* most maxFrames tick bodies run
CommitWithin(s, maxFrames) ==
    /\ s.frame <= maxFrames
    /\ s.loadMediaRequestId <= MaxRequests
    /\ s.now <= MaxNow
    /\ isCancelled' = s.isCancelled /\ isPaused' = s.isPaused /\ isIdle' = s.isIdle
    /\ isMouseActive' = s.isMouseActive /\ hasSizedOnce' = s.hasSizedOnce
    /\ isMediaReady' = s.isMediaReady /\ animationFrameId' = s.animationFrameId
    /\ loadMediaRequestId' = s.loadMediaRequestId /\ mediaState' = s.mediaState
    /\ videoElement' = s.videoElement /\ lastInteractionTime' = s.lastInteractionTime
    /\ mousePosition' = s.mousePosition /\ smoothedMouse' = s.smoothedMouse
    /\ targetProps' = s.targetProps /\ animatedProps' = s.animatedProps
    /\ listening' = s.listening /\ released' = s.released
    /\ rendererSize' = s.rendererSize /\ pixelRatio' = s.pixelRatio
    /\ mainMaterial' = s.mainMaterial /\ copyMaterial' = s.copyMaterial
    /\ physicsMaterial' = s.physicsMaterial /\ blurMaterial' = s.blurMaterial
    /\ physicsRenderTargetA' = s.physicsRenderTargetA
    /\ physicsRenderTargetB' = s.physicsRenderTargetB
    /\ sceneRenderTarget' = s.sceneRenderTarget
    /\ blurRenderTargetA' = s.blurRenderTargetA /\ blurRenderTargetB' = s.blurRenderTargetB
    /\ scheduled' = s.scheduled /\ now' = s.now /\ inflight' = s.inflight
    /\ disposed' = s.disposed
    /\ frame' = s.frame /\ calls' = s.calls /\ passes' = s.passes /\ ev' = s.ev
    /\ wasIdle' = s.wasIdle
    /\ runningAtPause' = s.runningAtPause /\ viewportInvalid' = s.viewportInvalid
    /\ lastPointerEvent' = s.lastPointerEvent
    /\ retarget' = s.retarget

Commit(s) == CommitWithin(s, MaxFrames)

\* a host callback invoked by the controller: onError(message) or
\* onMediaLoaded(resolution); hasValue is FALSE for a null argument
HostCall(cb, hasValue, req) == [cb |-> cb, hasValue |-> hasValue, req |-> req]

\* one step of a tick body, in the order the steps run: a render of a scene
\* with the target it samples and the target it draws to (0 is the
\* presentation surface), the smoothing, or the request of the next callback
RenderPass(pass, src, dst) == [pass |-> pass, src |-> src, dst |-> dst]

\* the operation that produced the current state
Event(op, req, w, h, pr, effective, repeat) ==
    [op |-> op, req |-> req, w |-> w, h |-> h, pr |-> pr,
     effective |-> effective, repeat |-> repeat]

\* the state an operation starts from: nothing observed yet
Begin(e) == [St EXCEPT !.calls = <<>>, !.passes = <<>>, !.ev = e, !.wasIdle = FALSE]

\* ---- private helpers of ClarityController ----

\* _cleanupPreviousMedia: drop the video element, dispose and unbind the texture
_cleanupPreviousMedia(s) ==
    LET s1 == IF s.videoElement # NoVideo
              THEN [s EXCEPT !.videoElement = NoVideo] ELSE s
    IN IF s1.copyMaterial.uTexture # NoTexture
       THEN [s1 EXCEPT !.disposed = @ \cup {s1.copyMaterial.uTexture},
                       !.copyMaterial.uTexture = NoTexture]
       ELSE s1

\* _updateBrushUniforms(width, height)
_updateBrushUniforms(s, width, height) ==
    LET brushPixelSize == Min(width, height) * s.animatedProps.brushSize
    IN [s EXCEPT !.mainMaterial.uBrushSize = brushPixelSize,
                 !.physicsMaterial.uBrushSize = brushPixelSize \div PHYSICS_DOWNSAMPLE_FACTOR]

\* _updateSmoothedValues: lerp the animated props by 0.075 and the pointer by 0.1
_updateSmoothedValues(s) ==
    LET a == [refrostRate |-> lerp(s.animatedProps.refrostRate, s.targetProps.refrostRate, 75, 1000),
              brushSize |-> lerp(s.animatedProps.brushSize, s.targetProps.brushSize, 75, 1000)]
        s1 == [s EXCEPT !.animatedProps = a, !.physicsMaterial.uRefrostRate = a.refrostRate]
        s2 == IF s1.rendererSize[1] > 0 /\ s1.rendererSize[2] > 0
              THEN _updateBrushUniforms(s1, s1.rendererSize[1], s1.rendererSize[2])
              ELSE s1
    IN [s2 EXCEPT !.smoothedMouse = <<lerp(s2.smoothedMouse[1], s2.mousePosition[1], 1, 10),
                                      lerp(s2.smoothedMouse[2], s2.mousePosition[2], 1, 10)>>,
                  !.passes = Append(@, RenderPass("smooth", 0, 0))]

\* ---- Shaders.physicsFragmentShader ----

\* GLSL clamp(x, minVal, maxVal)
clamp(x, minVal, maxVal) == Min(Max(x, minVal), maxVal)

\* GLSL smoothstep(0.0, edge1, x): x and edge1 in thousandths of a pixel, the
\* result in thousandths
smoothstep(edge1, x) ==
    LET t == clamp((x * 1000) \div edge1, 0, 1000)
    IN (((t * t) \div 1000) * (3000 - 2 * t)) \div 1000

\* GLSL distance(p, q) in thousandths of a pixel, as far as smoothstep tells
\* distances apart: every distance of limit or more is limit
distance(p, q, limit) ==
    LET dx == Abs(p[1] - q[1])
        dy == Abs(p[2] - q[2])
    IN IF dx >= limit \/ dy >= limit THEN limit
       ELSE Min(sqrt(dx * dx + dy * dy), limit)

\* texture2D(uPreviousFrame, uv) with uv the centre of texel (x, y); a
\* coordinate off the texture is clamped to its edge
texture2D(t, x, y) ==
    LET texel == t.texels[<<clamp(x, 0, t.width - 1), clamp(y, 0, t.height - 1)>>]
    IN [r |-> texel[1] * 1000, g |-> texel[2] * 1000, b |-> texel[3] * 1000]

brush_ignoresActive(u, x, y) ==
    LET edge1 == u.uBrushSize \div 1000
        dist == distance(<<1000 * x + 500, 1000 * y + 500>>, u.uMouse, edge1)
    IN (1000 - smoothstep(edge1, dist)) * ByteMax

\* step 1 of the shader: the brush at the fragment of texel (x, y), zero
\* unless the pointer is active
brush(u, x, y) ==
    IF u.uIsMouseActive
    THEN LET edge1 == u.uBrushSize \div 1000
             dist == distance(<<1000 * x + 500, 1000 * y + 500>>, u.uMouse, edge1)
         IN (1000 - smoothstep(edge1, dist)) * ByteMax
    ELSE 0

fragColor_unclamped(clear, water, drip) == [r |-> clear, g |-> water, b |-> drip]

\* the last statement of the shader: the three channels clamped to [0, 1]
fragColor(clear, water, drip) ==
    [r |-> clamp(clear, 0, One), g |-> clamp(water, 0, One), b |-> clamp(drip, 0, One)]

physicsFragmentShader_thaws(prev, u, x, y) ==
    LET state == texture2D(prev, x, y)
        newClear == Max(state.r, brush(u, x, y))
        frostRemoved == Max(0, (newClear - state.r) \div 2)
        wiped == state.g + frostRemoved
        dripOffset == (2 * prev.height) \div u.uResolution[2]
        incomingDrip == texture2D(prev, x, y - dripOffset).b
        drip == (incomingDrip * 985) \div 1000
        cleared == Max(newClear, (drip * 900) \div 1000)
        water == (wiped * 970) \div 1000
        clear == cleared + (u.uRefrostRate * (Abs(One - water) \div 1000)) \div 1000000
    IN fragColor(clear, water, drip)

\* main() of the physics shader for the fragment of texel (x, y): prev is the
\* target bound as uPreviousFrame, u the uniforms; the result is gl_FragColor
physicsFragmentShader(prev, u, x, y) ==
    LET state == texture2D(prev, x, y)
        \* 1. wiping converts frost to water
        newClear == Max(state.r, brush(u, x, y))
        frostRemoved == Max(0, (newClear - state.r) \div 2)
        wiped == state.g + frostRemoved
        \* 2. drip += water * WATER_TO_DRIP_CONVERSION
        seeded == state.b + (wiped * 10) \div 1000
        \* 3. drip = incomingDrip * DRIP_RETENTION, sampled at vUv - dripOffset
        dripOffset == (2 * prev.height) \div u.uResolution[2]
        incomingDrip == texture2D(prev, x, y - dripOffset).b
        drip == (incomingDrip * 985) \div 1000
        \* 4. drips clear a path in the frost
        cleared == Max(newClear, (drip * 900) \div 1000)
        \* 5. water evaporates
        water == (wiped * 970) \div 1000
        \* 6. frost returns: clear -= uRefrostRate * (1.0 - water)
        clear == cleared - (u.uRefrostRate * ((One - water) \div 1000)) \div 1000000
    IN fragColor(clear, water, drip)

\* the frame buffer stores a channel as the nearest byte
Unorm8(c) == RoundDiv(clamp(c, 0, One), 1000)

\* the all-zero field of a freshly allocated width x height texture
ZeroField(width, height) ==
    [p \in (0..(width - 1)) \X (0..(height - 1)) |-> <<0, 0, 0>>]

\* renderer.render(physicsScene, camera) into target: one fragment per texel
renderPhysics(target, prev, u) ==
    [p \in (0..(target.width - 1)) \X (0..(target.height - 1)) |->
        LET c == physicsFragmentShader(prev, u, p[1], p[2])
        IN <<Unorm8(c.r), Unorm8(c.g), Unorm8(c.b)>>]

_renderPhysicsPass_noSwap(s) ==
    LET u == [s.physicsMaterial EXCEPT
                 !.uPreviousFrame = s.physicsRenderTargetA.id,
                 !.uMouse = <<s.smoothedMouse[1] \div PHYSICS_DOWNSAMPLE_FACTOR,
                              s.smoothedMouse[2] \div PHYSICS_DOWNSAMPLE_FACTOR>>,
                 !.uIsMouseActive = s.isMouseActive]
        written == [s.physicsRenderTargetB EXCEPT
                       !.content = s.frame,
                       !.texels = renderPhysics(s.physicsRenderTargetB,
                                                s.physicsRenderTargetA, u)]
    IN [s EXCEPT !.physicsMaterial = u,
                 !.physicsRenderTargetB = written,
                 !.passes = Append(@, RenderPass("physics", s.physicsRenderTargetA.id,
                                                 s.physicsRenderTargetB.id))]

\* _renderPhysicsPass: draw into target B from target A, then swap the two
_renderPhysicsPass(s) ==
    LET u == [s.physicsMaterial EXCEPT
                 !.uPreviousFrame = s.physicsRenderTargetA.id,
                 !.uMouse = <<s.smoothedMouse[1] \div PHYSICS_DOWNSAMPLE_FACTOR,
                              s.smoothedMouse[2] \div PHYSICS_DOWNSAMPLE_FACTOR>>,
                 !.uIsMouseActive = s.isMouseActive]
        written == [s.physicsRenderTargetB EXCEPT
                       !.content = s.frame,
                       !.texels = renderPhysics(s.physicsRenderTargetB,
                                                s.physicsRenderTargetA, u)]
    IN [s EXCEPT !.physicsMaterial = u,
                 !.physicsRenderTargetA = written,
                 !.physicsRenderTargetB = s.physicsRenderTargetA,
                 !.passes = Append(@, RenderPass("physics", s.physicsRenderTargetA.id,
                                                 s.physicsRenderTargetB.id))]

\* ---- Shaders.copyFragmentShader ----

\* 1.0 of a texture coordinate
UvOne == 1000 * 1000

\* getCoverUv(uv) under the uniforms uResolution and uImageResolution; uv and
\* the result in millionths.  scale is num / den with the two aspect ratios
\* cross-multiplied.
getCoverUv(uResolution, uImageResolution, uv) ==
    IF uImageResolution[2] > 0
    THEN LET canvasWider == uResolution[1] * uImageResolution[2]
                               > uImageResolution[1] * uResolution[2]
         IN IF canvasWider
            THEN \* scale = canvasAspect / imageAspect
                 LET num == uResolution[1] * uImageResolution[2]
                     den == uResolution[2] * uImageResolution[1]
                 IN <<uv[1], (2 * uv[2] * num - (num - den) * UvOne) \div (2 * den)>>
            ELSE \* scale = imageAspect / canvasAspect
                 LET num == uImageResolution[1] * uResolution[2]
                     den == uImageResolution[2] * uResolution[1]
                 IN <<(2 * uv[1] * num - (num - den) * UvOne) \div (2 * den), uv[2]>>
    ELSE uv

\* the corners of the output quad, as vUv
Corners == {0, UvOne} \X {0, UvOne}

\* main() of the copy shader at the four corner fragments: the coordinate of
\* the medium each corner of the sharp texture is sampled at
copyFragmentShader(u) ==
    [uv \in Corners |-> getCoverUv(u.uResolution, u.uImageResolution, uv)]

\* _renderSceneAndBlurPasses: cover-fit copy, horizontal blur, vertical blur
_renderSceneAndBlurPasses(s) ==
    [s EXCEPT !.sceneRenderTarget.content = s.frame,
              !.sceneRenderTarget.imageUv = copyFragmentShader(s.copyMaterial),
              !.blurRenderTargetA.content = s.frame,
              !.blurRenderTargetB.content = s.frame,
              !.blurMaterial.uInput = s.blurRenderTargetA.id,
              !.blurMaterial.uDirection = <<0, 1>>,
              !.passes = @ \o <<RenderPass("copy", 0, s.sceneRenderTarget.id),
                                RenderPass("blurH", s.sceneRenderTarget.id, s.blurRenderTargetA.id),
                                RenderPass("blurV", s.blurRenderTargetA.id, s.blurRenderTargetB.id)>>]

\* _renderMainPass: composite to the presentation surface
_renderMainPass(s) ==
    [s EXCEPT !.mainMaterial.uPhysicsState = s.physicsRenderTargetA.id,
              !.mainMaterial.uSceneTexture = s.sceneRenderTarget.id,
              !.mainMaterial.uBlurredMap = s.blurRenderTargetB.id,
              !.mainMaterial.uMouse = s.smoothedMouse,
              !.passes = Append(@, RenderPass("main", s.physicsRenderTargetA.id, 0))]

\* renderer.setRenderTarget(null); renderer.clear()
clearSurface(s) == [s EXCEPT !.passes = Append(@, RenderPass("clear", 0, 0))]

animateReturnsEarly_pausedOnly(s) == s.isPaused

\* the guard of _animate
animateReturnsEarly(s) == s.isCancelled \/ s.isPaused

idleNow_anyMedia(s) ==
    LET timeSinceLastInteraction == s.now - s.lastInteractionTime
    IN /\ ~s.isMouseActive
       /\ timeSinceLastInteraction > IDLE_TIMEOUT

idleNow_pointerIgnored(s) ==
    LET timeSinceLastInteraction == s.now - s.lastInteractionTime
    IN /\ s.mediaState.type = "image"
       /\ timeSinceLastInteraction > IDLE_TIMEOUT

\* the value _animate assigns to isIdle
idleNow(s) ==
    LET timeSinceLastInteraction == s.now - s.lastInteractionTime
    IN /\ ~s.isMouseActive
       /\ s.mediaState.type = "image"
       /\ timeSinceLastInteraction > IDLE_TIMEOUT

\* _animate: one tick; schedules its successor, then runs the frame
_animate(s) ==
    IF animateReturnsEarly(s) THEN s
    ELSE
    LET idle == idleNow(s)
        c == IF idle
             THEN [kind |-> "timer", id |-> s.frame + 1, delay |-> IDLE_FRAME_INTERVAL]
             ELSE [kind |-> "raf", id |-> s.frame + 1, delay |-> 0]
        s1 == [s EXCEPT !.wasIdle = s.isIdle,
                        !.isIdle = idle,
                        !.animationFrameId = c.id,
                        !.scheduled = @ \cup {c},
                        !.passes = Append(@, RenderPass("schedule", 0, 0)),
                        !.frame = @ + 1]
        s2 == _renderPhysicsPass(_updateSmoothedValues(s1))
    IN IF s2.copyMaterial.uTexture # NoTexture
       THEN _renderMainPass(_renderSceneAndBlurPasses(s2))
       ELSE clearSurface(s2)

start_unguarded(s) ==
    IF s.isPaused THEN s
    ELSE _animate([s EXCEPT !.lastInteractionTime = s.now])

\* start()
start(s) ==
    IF s.animationFrameId # NoHandle \/ s.isPaused THEN s
    ELSE _animate([s EXCEPT !.lastInteractionTime = s.now])

_tryStartAnimation_ignoresMedia(s) ==
    IF s.hasSizedOnce /\ ~s.isPaused THEN start(s) ELSE s

\* _tryStartAnimation()
_tryStartAnimation(s) ==
    IF s.hasSizedOnce /\ s.isMediaReady /\ ~s.isPaused THEN start(s) ELSE s

cancelPending_rafOnly(s) ==
    [s EXCEPT !.scheduled = {c \in @ : ~(c.kind = "raf" /\ c.id = s.animationFrameId)},
              !.animationFrameId = NoHandle]

\* the cancellation in pause(): clearTimeout when idle, else cancelAnimationFrame
cancelPending(s) ==
    LET kind == IF s.isIdle THEN "timer" ELSE "raf"
    IN [s EXCEPT !.scheduled = {c \in @ : ~(c.kind = kind /\ c.id = s.animationFrameId)},
                 !.animationFrameId = NoHandle]

\* pause()
pause(s) ==
    IF s.isPaused \/ s.isCancelled THEN s
    ELSE LET s1 == [s EXCEPT !.isPaused = TRUE]
         IN IF s1.animationFrameId # NoHandle THEN cancelPending(s1) ELSE s1

resume_noRestart(s) ==
    IF ~s.isPaused \/ s.isCancelled THEN s
    ELSE [s EXCEPT !.isPaused = FALSE]

\* resume()
resume(s) ==
    IF ~s.isPaused \/ s.isCancelled THEN s
    ELSE _tryStartAnimation([s EXCEPT !.isPaused = FALSE])

\* dispose()
dispose(s) ==
    LET s1 == pause([s EXCEPT !.isCancelled = TRUE])
        s2 == _cleanupPreviousMedia([s1 EXCEPT !.listening = FALSE])
    IN [s2 EXCEPT !.released = TRUE]

updatePointer_leavesIdle(s, x, y, isActive) ==
    LET s1 == [s EXCEPT !.isMouseActive = isActive]
    IN IF isActive
       THEN [s1 EXCEPT !.mousePosition = <<x, y>>, !.lastInteractionTime = s.now,
                       !.isIdle = FALSE]
       ELSE s1

\* updatePointer(x, y, isActive)
updatePointer(s, x, y, isActive) ==
    LET s1 == [s EXCEPT !.isMouseActive = isActive]
    IN IF isActive
       THEN [s1 EXCEPT !.mousePosition = <<x, y>>, !.lastInteractionTime = s.now]
       ELSE s1

\* a target reallocated at a new size: nothing drawn, every texel zero
reallocate(t, width, height) ==
    LET r == [t EXCEPT !.width = width, !.height = height, !.content = 0]
    IN IF "texels" \in DOMAIN t
       THEN [r EXCEPT !.texels = ZeroField(width, height)]
       ELSE IF "imageUv" \in DOMAIN t
       THEN [r EXCEPT !.imageUv = [uv \in DOMAIN t.imageUv |-> <<0, 0>>]]
       ELSE r

setSize_alwaysReallocate(t, width, height) == reallocate(t, width, height)

setSize_never(t, width, height) == t

\* renderTarget.setSize(width, height) as resize calls it: three.js
\* reallocates the target when the size changes (its content is lost) and
\* leaves it as it is when the size is the same
setSize(t, width, height) ==
    IF t.width # width \/ t.height # height
    THEN reallocate(t, width, height)
    ELSE t

\* resize(width, height, pixelRatio)
resize(s, width, height, pr) ==
    IF width <= 0 \/ height <= 0 THEN s
    ELSE
    LET downsampledWidth == Max(1, RoundDiv(width, DOWNSAMPLE_FACTOR))
        downsampledHeight == Max(1, RoundDiv(height, DOWNSAMPLE_FACTOR))
        physicsWidth == Max(1, RoundDiv(width, PHYSICS_DOWNSAMPLE_FACTOR))
        physicsHeight == Max(1, RoundDiv(height, PHYSICS_DOWNSAMPLE_FACTOR))
        s1 == [s EXCEPT
                 !.pixelRatio = Min(DevicePixelRatio, pr),
                 !.rendererSize = <<width, height>>,
                 !.mainMaterial.uResolution = <<width, height>>,
                 !.copyMaterial.uResolution = <<width, height>>,
                 !.physicsMaterial.uResolution = <<physicsWidth, physicsHeight>>,
                 !.blurMaterial.uResolution = <<downsampledWidth, downsampledHeight>>,
                 !.physicsRenderTargetA = setSize(@, physicsWidth, physicsHeight),
                 !.physicsRenderTargetB = setSize(@, physicsWidth, physicsHeight),
                 !.sceneRenderTarget = setSize(@, width, height),
                 !.blurRenderTargetA = setSize(@, downsampledWidth, downsampledHeight),
                 !.blurRenderTargetB = setSize(@, downsampledWidth, downsampledHeight)]
        s2 == _updateBrushUniforms(s1, width, height)
    IN IF ~s2.hasSizedOnce
       THEN _tryStartAnimation([s2 EXCEPT !.hasSizedOnce = TRUE])
       ELSE s2

\* ---- media loading ----

\* _resizeTextureOnGPU(sourceTexture, sourceResolution): an image larger than
\* the canvas is redrawn into a smaller target and the original is disposed
_resizeTextureOnGPU(s, sourceTexture, sourceResolution) ==
    LET cx == s.rendererSize[1]
        cy == s.rendererSize[2]
        sx == sourceResolution[1]
        sy == sourceResolution[2]
        keep == [state |-> s, texture |-> sourceTexture, resolution |-> sourceResolution]
        \* canvasAspect > sourceAspect, cross-multiplied
        wider == cx * sy > sx * cy
        \* scale = num / den
        num == IF wider THEN cx ELSE cy
        den == IF wider THEN sx ELSE sy
    IN IF ~s.hasSizedOnce \/ cx = 0 \/ (sx <= cx /\ sy <= cy) THEN keep
       ELSE IF num >= den \/ 100 * num >= 99 * den THEN keep
       ELSE LET newWidth == Max(1, RoundDiv(sx * num, den))
                newHeight == Max(1, RoundDiv(sy * num, den))
                resizeTarget == [req |-> sourceTexture.req, resized |-> TRUE]
            IN [state |-> [s EXCEPT !.disposed = @ \cup {sourceTexture}],
                texture |-> resizeTarget,
                resolution |-> <<newWidth, newHeight>>]

\* the finally block of loadMedia
loadMediaFinally(s, currentRequestId) ==
    IF ~s.isCancelled /\ currentRequestId = s.loadMediaRequestId
    THEN [s EXCEPT !.mediaState.loading = FALSE]
    ELSE s

staleInCatch_cancelledOnly(s, currentRequestId) == s.isCancelled

\* the guard of the catch block of loadMedia
staleInCatch(s, currentRequestId) ==
    s.isCancelled \/ currentRequestId # s.loadMediaRequestId

\* the catch block of loadMedia, then its finally block
loadMediaCatch(s, currentRequestId) ==
    IF staleInCatch(s, currentRequestId)
    THEN loadMediaFinally(s, currentRequestId)
    ELSE LET s1 == [s EXCEPT !.isMediaReady = FALSE,
                             !.calls = Append(@, HostCall("onError", TRUE, currentRequestId))]
         IN loadMediaFinally(_cleanupPreviousMedia(s1), currentRequestId)

staleAfterLoad_cancelledOnly(s, currentRequestId) == s.isCancelled

\* the guard after the await in loadMedia
staleAfterLoad(s, currentRequestId) ==
    s.isCancelled \/ currentRequestId # s.loadMediaRequestId

\* loadMedia from the stale check to the end of the try block, then finally
loadMediaBind(s, currentRequestId, texture, resolution, shouldResize) ==
    IF staleAfterLoad(s, currentRequestId)
    THEN loadMediaFinally([s EXCEPT !.disposed = @ \cup {texture}], currentRequestId)
    ELSE LET result == IF shouldResize
                       THEN _resizeTextureOnGPU(s, texture, resolution)
                       ELSE [state |-> s, texture |-> texture, resolution |-> resolution]
             s1 == [result.state EXCEPT !.copyMaterial.uTexture = result.texture,
                                        !.copyMaterial.uImageResolution = result.resolution,
                                        !.isMediaReady = TRUE]
         IN loadMediaFinally(_tryStartAnimation(s1), currentRequestId)

\* loadMedia resumed by its loader resolving: _loadImageTexture after the
\* await (or the play() continuation of _loadVideoTexture), onMediaLoaded,
\* then the rest of the try block
loadMediaResolved(s, r, resolution) ==
    LET texture == [req |-> r.id, resized |-> FALSE]
    IN IF r.type = "image"
       THEN IF s.isCancelled
            THEN loadMediaCatch([s EXCEPT !.disposed = @ \cup {texture}], r.id)
            ELSE loadMediaBind(
                    [s EXCEPT !.calls = Append(@, HostCall("onMediaLoaded", TRUE, r.id))],
                    r.id, texture, resolution, TRUE)
       ELSE IF s.isCancelled
            THEN loadMediaCatch(s, r.id)
            ELSE loadMediaBind(
                    [s EXCEPT !.calls = Append(@, HostCall("onMediaLoaded", TRUE, r.id))],
                    r.id, texture, resolution, FALSE)

loadMediaReturnsEarly_unlessFailed(s, mediaType, src) ==
    \/ src = ""
    \/ /\ s.mediaState.type = mediaType /\ s.mediaState.src = src
       /\ (s.mediaState.loading \/ s.isMediaReady)

\* the guard of loadMedia: no source, or the medium of the last accepted request
loadMediaReturnsEarly(s, mediaType, src) ==
    src = "" \/ (s.mediaState.type = mediaType /\ s.mediaState.src = src)

\* loadMedia(mediaType, imageUrl, videoUrl) up to its await
loadMedia(s, mediaType, imageUrl, videoUrl) ==
    LET src == IF mediaType = "image" THEN imageUrl ELSE videoUrl
    IN IF loadMediaReturnsEarly(s, mediaType, src) THEN s
       ELSE
       LET currentRequestId == s.loadMediaRequestId + 1
           s1 == [s EXCEPT !.isMediaReady = FALSE,
                           !.loadMediaRequestId = currentRequestId,
                           !.mediaState = [loading |-> TRUE, type |-> mediaType, src |-> src],
                           !.calls = @ \o <<HostCall("onError", FALSE, currentRequestId),
                                            HostCall("onMediaLoaded", FALSE, currentRequestId)>>]
           s2 == _cleanupPreviousMedia(s1)
           s3 == IF mediaType = "video"
                 THEN [s2 EXCEPT !.videoElement = currentRequestId] ELSE s2
       IN [s3 EXCEPT !.inflight = @ \cup {[id |-> currentRequestId, type |-> mediaType]}]

\* setProps(props)
setProps(s, props) ==
    loadMedia([s EXCEPT !.targetProps = [refrostRate |-> props.refrostRate,
                                         brushSize |-> props.brushSize],
                        !.mainMaterial.uChromaticAberration = props.chromaticAberration,
                        !.mainMaterial.uReflectivity = props.reflectivity,
                        !.mainMaterial.uBlurBrightness = props.blurBrightness],
              props.mediaType, props.imageUrl, props.videoUrl)

\* ---- the state after construction ----

Target(id) == [id |-> id, width |-> 1, height |-> 1, content |-> 0]

\* the target of the copy pass: the coordinates of the medium that its four
\* corners show are modelled
SceneTarget(id) ==
    [id |-> id, width |-> 1, height |-> 1, content |-> 0,
     imageUv |-> [uv \in Corners |-> <<0, 0>>]]

\* a target of the simulation field: its texels are modelled
FieldTarget(id) ==
    [id |-> id, width |-> 1, height |-> 1, content |-> 0, texels |-> ZeroField(1, 1)]

\* the state new ClarityController(...) returns
Fresh ==
    [isCancelled |-> FALSE,
     isPaused |-> FALSE,
     isIdle |-> FALSE,
     isMouseActive |-> FALSE,
     hasSizedOnce |-> FALSE,
     isMediaReady |-> FALSE,
     animationFrameId |-> NoHandle,
     loadMediaRequestId |-> 0,
     mediaState |-> [loading |-> FALSE, type |-> "", src |-> ""],
     videoElement |-> NoVideo,
     now |-> 0,
     lastInteractionTime |-> 0,
     mousePosition |-> <<-1000000, -1000000>>,
     smoothedMouse |-> <<-1000000, -1000000>>,
     targetProps |-> [refrostRate |-> 3000000, brushSize |-> 300000],
     animatedProps |-> [refrostRate |-> 3000000, brushSize |-> 300000],
     listening |-> TRUE,
     released |-> FALSE,
     \* the size of a new canvas element
     rendererSize |-> <<300, 150>>,
     pixelRatio |-> 10,
     mainMaterial |-> [uResolution |-> <<0, 0>>, uSceneTexture |-> 0, uPhysicsState |-> 0,
                      uBlurredMap |-> 0, uMouse |-> <<0, 0>>, uBrushSize |-> 120000000,
                      uChromaticAberration |-> 10000, uReflectivity |-> 200000,
                      uBlurBrightness |-> 1200000],
     copyMaterial |-> [uTexture |-> NoTexture, uResolution |-> <<0, 0>>,
                      uImageResolution |-> <<0, 0>>],
     physicsMaterial |-> [uPreviousFrame |-> 0, uResolution |-> <<0, 0>>, uMouse |-> <<0, 0>>,
                         uBrushSize |-> 120000000, uRefrostRate |-> 3000000,
                         uIsMouseActive |-> FALSE],
     blurMaterial |-> [uInput |-> 0, uResolution |-> <<0, 0>>, uDirection |-> <<0, 0>>],
     physicsRenderTargetA |-> FieldTarget(1),
     physicsRenderTargetB |-> FieldTarget(2),
     sceneRenderTarget |-> SceneTarget(3),
     blurRenderTargetA |-> Target(4),
     blurRenderTargetB |-> Target(5),
     scheduled |-> {},
     inflight |-> {},
     disposed |-> {},
     frame |-> 0,
     calls |-> <<>>,
     passes |-> <<>>,
     ev |-> Event("new", 0, 0, 0, 0, TRUE, FALSE),
     wasIdle |-> FALSE,
     runningAtPause |-> FALSE,
     viewportInvalid |-> FALSE,
     lastPointerEvent |-> 0,
     retarget |-> [from |-> 0, at |-> -1]]

\* the variables hold the state s
Establish(s) ==
    /\ isCancelled = s.isCancelled
    /\ isPaused = s.isPaused
    /\ isIdle = s.isIdle
    /\ isMouseActive = s.isMouseActive
    /\ hasSizedOnce = s.hasSizedOnce
    /\ isMediaReady = s.isMediaReady
    /\ animationFrameId = s.animationFrameId
    /\ loadMediaRequestId = s.loadMediaRequestId
    /\ mediaState = s.mediaState
    /\ videoElement = s.videoElement
    /\ now = s.now
    /\ lastInteractionTime = s.lastInteractionTime
    /\ mousePosition = s.mousePosition
    /\ smoothedMouse = s.smoothedMouse
    /\ targetProps = s.targetProps
    /\ animatedProps = s.animatedProps
    /\ listening = s.listening
    /\ released = s.released
    /\ rendererSize = s.rendererSize
    /\ pixelRatio = s.pixelRatio
    /\ mainMaterial = s.mainMaterial
    /\ copyMaterial = s.copyMaterial
    /\ physicsMaterial = s.physicsMaterial
    /\ blurMaterial = s.blurMaterial
    /\ physicsRenderTargetA = s.physicsRenderTargetA
    /\ physicsRenderTargetB = s.physicsRenderTargetB
    /\ sceneRenderTarget = s.sceneRenderTarget
    /\ blurRenderTargetA = s.blurRenderTargetA
    /\ blurRenderTargetB = s.blurRenderTargetB
    /\ scheduled = s.scheduled
    /\ inflight = s.inflight
    /\ disposed = s.disposed
    /\ frame = s.frame
    /\ calls = s.calls
    /\ passes = s.passes
    /\ ev = s.ev
    /\ wasIdle = s.wasIdle
    /\ runningAtPause = s.runningAtPause
    /\ viewportInvalid = s.viewportInvalid
    /\ lastPointerEvent = s.lastPointerEvent
    /\ retarget = s.retarget

Init == Establish(Fresh)

\* ---- actions: the entry points ----

\* the Clarity component holds the controller from mount until its cleanup
\* calls dispose() and drops the reference; it makes no call afterwards
Mounted == ~isCancelled

\* the host's ResizeObserver calls resize(width, height, pixelRatio)
Resize(width, height, pr) ==
    LET e == Event("resize", 0, width, height, pr, width > 0 /\ height > 0,
                   /\ ev.op = "resize" /\ ev.effective
                   /\ ev.w = width /\ ev.h = height /\ ev.pr = pr)
        s == resize(Begin(e), width, height, pr)
    IN /\ Mounted
       /\ Commit([s EXCEPT !.viewportInvalid = ~(width > 0 /\ height > 0)])

\* the host calls setProps(props)
SetProps(setting, mediaType, imageUrl, videoUrl) ==
    LET props == [refrostRate |-> setting.refrostRate, brushSize |-> setting.brushSize,
                  chromaticAberration |-> setting.chromaticAberration,
                  reflectivity |-> setting.reflectivity,
                  blurBrightness |-> setting.blurBrightness,
                  mediaType |-> mediaType, imageUrl |-> imageUrl, videoUrl |-> videoUrl]
        src == IF mediaType = "image" THEN imageUrl ELSE videoUrl
        \* the medium asked for is that of the last accepted request
        repeat == src # "" /\ mediaState.type = mediaType /\ mediaState.src = src
        s == setProps(Begin(Event("setProps", 0, 0, 0, 0, TRUE, repeat)), props)
    IN /\ Mounted
       /\ Commit([s EXCEPT !.ev.req = IF s.loadMediaRequestId # loadMediaRequestId
                                      THEN s.loadMediaRequestId ELSE 0,
                           !.ev.effective = s.loadMediaRequestId # loadMediaRequestId,
                           !.retarget =
                               IF s.targetProps.refrostRate # targetProps.refrostRate
                               THEN [from |-> animatedProps.refrostRate, at |-> frame]
                               ELSE @])

\* a mousemove / touchmove on the canvas: updatePointer(x, y, true)
PointerMove(x, y) ==
    /\ listening
    /\ Commit([updatePointer(Begin(Event("pointerMove", 0, 0, 0, 0, TRUE, FALSE)),
                             x, y, TRUE)
                  EXCEPT !.lastPointerEvent = now])

\* a mouseleave / touchend / touchcancel: updatePointer(0, 0, false)
PointerLeave ==
    /\ listening
    /\ Commit(updatePointer(Begin(Event("pointerLeave", 0, 0, 0, 0, TRUE, FALSE)),
                            0, 0, FALSE))

\* the host's visibility observer calls pause()
Pause ==
    LET effective == ~isPaused /\ ~isCancelled
        s == pause(Begin(Event("pause", 0, 0, 0, 0, effective, FALSE)))
    IN /\ Mounted
       /\ Commit([s EXCEPT !.runningAtPause = IF effective THEN animationFrameId # NoHandle
                                              ELSE @])

\* the host's visibility observer calls resume()
Resume ==
    /\ Mounted
    /\ Commit(resume(Begin(Event("resume", 0, 0, 0, 0, isPaused /\ ~isCancelled, FALSE))))

\* the host unmounts: dispose()
Dispose ==
    /\ Mounted
    /\ Commit(dispose(Begin(Event("dispose", 0, 0, 0, 0, ~isCancelled, FALSE))))

\* the state after the browser has run the scheduled callback c
Ticked(c) ==
    _animate([Begin(Event("tick", 0, 0, 0, 0, ~animateReturnsEarly(St), FALSE))
                 EXCEPT !.scheduled = @ \ {c}])

\* the browser runs a scheduled tick callback (animation frame or timer)
Tick(c) ==
    /\ c \in scheduled
    /\ Commit(Ticked(c))

\* the loader of request r resolves with a frame of the given resolution; a
\* loader may settle at any time after its request, also after a later
\* request or after dispose()
LoadResolve(r, resolution) ==
    /\ r \in inflight
    /\ Commit(loadMediaResolved(
                 [Begin(Event("resolve", r.id, 0, 0, 0,
                              ~staleAfterLoad(St, r.id), FALSE))
                    EXCEPT !.inflight = @ \ {r}],
                 r, resolution))

\* the loader of request r rejects
LoadFail(r) ==
    /\ r \in inflight
    /\ Commit(loadMediaCatch(
                 [Begin(Event("fail", r.id, 0, 0, 0,
                              ~staleInCatch(St, r.id), FALSE))
                    EXCEPT !.inflight = @ \ {r}],
                 r.id))

\* time passes
AdvanceTime ==
    Commit([St EXCEPT !.now = @ + TimeStep])

\* ---- specifications ----
\* The entry points are the same in every specification; each one draws the
\* inputs of the host from the sets its claims are about.

\* media loads racing with each other and with the life cycle: every media
\* type and url, one viewport, no pointer
NextMedia ==
    \/ \E pr \in PixelRatios : Resize(16, 6, pr)
    \/ \E mediaType \in MediaTypes, imageUrl \in ImageUrls, videoUrl \in VideoUrls :
          SetProps(DefaultSetting, mediaType, imageUrl, videoUrl)
    \/ Pause
    \/ Resume
    \/ Dispose
    \/ \E c \in scheduled : Tick(c)
    \/ \E r \in inflight, resolution \in MediaResolutions : LoadResolve(r, resolution)
    \/ \E r \in inflight : LoadFail(r)

SpecMedia == Init /\ [][NextMedia]_vars

\* the tick loop under pause / resume / dispose, pointer activity and time:
\* one image, one viewport
NextSchedule ==
    \/ \E pr \in PixelRatios : Resize(16, 6, pr)
    \/ SetProps(DefaultSetting, "image", "a", "")
    \/ \E p \in PointerPositions : PointerMove(p[1], p[2])
    \/ PointerLeave
    \/ Pause
    \/ Resume
    \/ Dispose
    \/ \E c \in scheduled : Tick(c)
    \/ \E r \in inflight : LoadResolve(r, <<4, 2>>)
    \/ \E r \in inflight : LoadFail(r)
    \/ AdvanceTime

SpecSchedule == Init /\ [][NextSchedule]_vars

\* idle throttling: an image and a video, pointer activity and time, one
\* viewport, no pause
NextIdle ==
    \/ \E pr \in PixelRatios : Resize(16, 6, pr)
    \/ SetProps(DefaultSetting, "image", "a", "")
    \/ SetProps(DefaultSetting, "video", "", "v")
    \/ \E p \in PointerPositions : PointerMove(p[1], p[2])
    \/ PointerLeave
    \/ \E c \in scheduled : Tick(c)
    \/ \E r \in inflight : LoadResolve(r, <<4, 2>>)
    \/ AdvanceTime

SpecIdle == Init /\ [][NextIdle]_vars

\* ---- the physics pass on drawn fields ----

\* the canvas of the simulation runs, and its centre as a pointer position
PhysicsViewport == <<12, 20>>
CanvasCentre == <<(PhysicsViewport[1] * 1000) \div 2, (PhysicsViewport[2] * 1000) \div 2>>

\* the texels of the simulation field at that canvas size
PhysicsGrid ==
    (0..(Max(1, RoundDiv(PhysicsViewport[1], PHYSICS_DOWNSAMPLE_FACTOR)) - 1))
        \X (0..(Max(1, RoundDiv(PhysicsViewport[2], PHYSICS_DOWNSAMPLE_FACTOR)) - 1))

\* the field with the same texel everywhere
UniformField(texel) == [p \in PhysicsGrid |-> texel]

\* the field that is zero but for a drip of 1.0 at texel q
DripField(q) == [p \in PhysicsGrid |-> IF p = q THEN <<0, 0, ByteMax>> ELSE <<0, 0, 0>>]

\* the field some ticks after a wipe at the canvas centre: the centre texel
\* fully clear, its water evaporated down to 16/255, where 0.97 of it rounds
\* back to itself
WipedField ==
    [p \in PhysicsGrid |->
        IF p = <<CanvasCentre[1] \div (1000 * PHYSICS_DOWNSAMPLE_FACTOR),
                 CanvasCentre[2] \div (1000 * PHYSICS_DOWNSAMPLE_FACTOR)>>
        THEN <<ByteMax, 16, 0>> ELSE <<0, 0, 0>>]

\* previous frames the physics shader is run on: fully frosted, a single drip
\* low, in the middle and high in the grid, wet frost, a saturated field, and
\* a wiped spot
SeedFields ==
    {UniformField(<<0, 0, 0>>),
     DripField(<<1, 0>>), DripField(<<1, 2>>),
     UniformField(<<0, ByteMax, 0>>),
     UniformField(<<ByteMax, ByteMax, ByteMax>>),
     WipedField}

\* where the smoothed pointer is when the run starts: the off-canvas value
\* of the constructor, settled on the canvas centre, or on its way there, on
\* the corner of four texels that the brush then covers in part
SmoothedPointers ==
    {<<-1000000, -1000000>>, CanvasCentre,
     <<CanvasCentre[1] - 2000, CanvasCentre[2] - 2000>>}

\* initial refrostRate of the component, in billionths
RefrostRates == {0, 1000000, 3000000}

\* a controller built with the given refrostRate, sized to PhysicsViewport
\* and with its image requested, whose current field and pointer are the
\* given ones
Simulating(refrostRate, field, pointer) ==
    LET built == [Fresh EXCEPT !.targetProps.refrostRate = refrostRate,
                               !.animatedProps.refrostRate = refrostRate,
                               !.physicsMaterial.uRefrostRate = refrostRate]
        sized == resize(built, PhysicsViewport[1], PhysicsViewport[2], 10)
        requested == loadMedia(sized, "image", "a", "")
    IN [requested EXCEPT !.physicsRenderTargetA.texels = field,
                         !.mousePosition = pointer,
                         !.smoothedMouse = pointer,
                         !.calls = <<>>]

InitPhysics ==
    \E refrostRate \in RefrostRates, field \in SeedFields, pointer \in SmoothedPointers :
        Establish(Simulating(refrostRate, field, pointer))

\* the host retunes to the setting that is not the default: a smaller brush
\* and the highest refrostRate
NextPhysics ==
    \/ PointerMove(CanvasCentre[1], CanvasCentre[2])
    \/ PointerLeave
    \/ \E setting \in PropSettings \ {DefaultSetting} : SetProps(setting, "image", "a", "")
    \/ \E c \in scheduled : Tick(c)
    \/ \E r \in inflight : LoadResolve(r, <<4, 2>>)

SpecPhysics == InitPhysics /\ [][NextPhysics]_vars

\* ---- the parameter smoothing over many ticks ----

\* a controller built with the given refrostRate, sized and with its image
\* requested
Mounting(refrostRate) ==
    LET built == [Fresh EXCEPT !.targetProps.refrostRate = refrostRate,
                               !.animatedProps.refrostRate = refrostRate,
                               !.physicsMaterial.uRefrostRate = refrostRate]
        sized == resize(built, 16, 6, 10)
        requested == loadMedia(sized, "image", "a", "")
    IN [requested EXCEPT !.calls = <<>>]

\* refrostRate of the component at mount: the ends of the range of its
\* property control
SmoothingStarts == {0, 5000000}

InitSmoothing == \E refrostRate \in SmoothingStarts : Establish(Mounting(refrostRate))

\* the browser runs a scheduled tick callback, in a run of up to
\* MaxSmoothingTicks tick bodies
SmoothingTick(c) ==
    /\ c \in scheduled
    /\ CommitWithin(Ticked(c), MaxSmoothingTicks)

\* the host has changed the refrostRate target
Retargeted == retarget.at >= 0

\* the image loads, the host retunes once, the loop runs on
NextSmoothing ==
    \/ \E r \in inflight : LoadResolve(r, <<4, 2>>)
    \/ /\ ~Retargeted
       /\ \E setting \in PropSettings : SetProps(setting, "image", "a", "")
    \/ \E c \in scheduled : SmoothingTick(c)

SpecSmoothing == InitSmoothing /\ [][NextSmoothing]_vars

\* resizing and retuning: every viewport and setting, one image, no pointer
NextResize ==
    \/ \E v \in Viewports, pr \in PixelRatios : Resize(v[1], v[2], pr)
    \/ \E setting \in PropSettings : SetProps(setting, "image", "a", "")
    \/ Pause
    \/ Resume
    \/ \E c \in scheduled : Tick(c)
    \/ \E r \in inflight, resolution \in MediaResolutions : LoadResolve(r, resolution)

SpecResize == Init /\ [][NextResize]_vars

\* ---- claims ----

\* the program state: every variable but the observation of the last operation
progVars == <<isCancelled, isPaused, isIdle, isMouseActive, hasSizedOnce, isMediaReady,
              animationFrameId, loadMediaRequestId, mediaState, videoElement,
              lastInteractionTime, mousePosition, smoothedMouse, targetProps, animatedProps,
              listening, released,
              rendererSize, pixelRatio, mainMaterial, copyMaterial, physicsMaterial,
              blurMaterial, physicsRenderTargetA, physicsRenderTargetB, sceneRenderTarget,
              blurRenderTargetA, blurRenderTargetB,
              scheduled, now, inflight, disposed, frame>>

\* the last operation called onError with a message
ReportedError == \E i \in 1..Len(calls) : calls[i].cb = "onError" /\ calls[i].hasValue

\* the last operation ran a render pass with this name
Ran(pass) == \E i \in 1..Len(passes) : passes[i].pass = pass

\* the latest request has settled without binding anything
LatestLoadFailed == loadMediaRequestId > 0 /\ ~mediaState.loading /\ ~isMediaReady

\* C1: whatever the interleaving of loadMedia requests and their completions,
\* a texture bound as copyMaterial.uTexture belongs to the request whose id is
\* the latest loadMediaRequestId.
C1_BoundIsLatest ==
    copyMaterial.uTexture # NoTexture => copyMaterial.uTexture.req = loadMediaRequestId

\* C1 witness: an earlier request resolves after a later one has been bound,
\* and the later one is still what is bound.
C1_Witness ==
    /\ ev.op = "resolve"
    /\ ev.req < loadMediaRequestId
    /\ copyMaterial.uTexture.req = loadMediaRequestId

\* C2: a load that resolves or fails after it was superseded changes neither
\* the bound texture, isMediaReady nor mediaState, calls neither onMediaLoaded
\* nor onError, and disposes at most the texture it allocated itself.
C2_SupersededIsSilent ==
    [][(ev'.op \in {"resolve", "fail"} /\ ev'.req # loadMediaRequestId')
        => /\ copyMaterial' = copyMaterial
           /\ isMediaReady' = isMediaReady
           /\ mediaState' = mediaState
           /\ calls' = <<>>
           /\ disposed' \subseteq disposed \cup {[req |-> ev'.req, resized |-> FALSE]}]_vars

\* C3: once the latest load has failed, a sized controller that is neither
\* paused nor disposed has a tick scheduled, and each tick runs the physics
\* pass and clears the surface, whether or not a load had succeeded before.
C3_TicksAfterFailure ==
    (LatestLoadFailed /\ hasSizedOnce /\ ~isPaused /\ ~isCancelled)
        => /\ scheduled # {}
           /\ (ev.op = "tick" => Ran("physics") /\ Ran("clear"))

\* C4: a failing load calls onError with a message exactly when its request
\* is still the latest one and the controller is not disposed; then nothing
\* is bound and isMediaReady is false.
C4_FailureReported ==
    ev.op = "fail"
        => /\ ReportedError <=> (ev.req = loadMediaRequestId /\ ~isCancelled)
           /\ (ev.req = loadMediaRequestId /\ ~isCancelled)
                 => (copyMaterial.uTexture = NoTexture /\ ~isMediaReady)

\* C4 witness: the latest request fails on a live controller and is reported.
C4_Witness ==
    /\ ev.op = "fail"
    /\ ev.req = loadMediaRequestId
    /\ ~isCancelled
    /\ ReportedError

\* C5: after dispose() no tick callback, animation frame or timer, is left
\* scheduled.
C5_DisposeCancelsTick == isCancelled => scheduled = {}

\* C6: after dispose() a tick callback that fires smooths nothing and renders
\* nothing, and a load that settles binds nothing, leaves isMediaReady alone
\* and calls no host callback.
C6_QuiescentAfterDispose ==
    [][(isCancelled /\ ev'.op \in {"tick", "resolve", "fail"})
        => /\ passes' = <<>>
           /\ calls' = <<>>
           /\ copyMaterial' = copyMaterial
           /\ isMediaReady' = isMediaReady
           /\ animatedProps' = animatedProps
           /\ smoothedMouse' = smoothedMouse]_vars

\* C6 witness: the load that was the latest request at dispose() resolves
\* after dispose().
C6_Witness ==
    /\ isCancelled
    /\ ev.op = "resolve"
    /\ ev.req = loadMediaRequestId

\* C7: while the controller is paused no tick callback is pending and no
\* operation smooths or renders, whether pause() found the loop at full rate
\* or on the idle timer.
C7_NoTickWhilePaused == isPaused => (scheduled = {} /\ passes = <<>>)

\* C7 witness: pause() has just cancelled a pending idle timer tick.
C7_Witness ==
    /\ ev.op = "pause"
    /\ isPaused
    /\ isIdle
    /\ runningAtPause

\* C8: if the loop was running when pause() was called, then right after the
\* resume() that ends the pause a tick is pending again, whatever was called
\* in between.
C8_ResumeRestartsLoop ==
    (ev.op = "resume" /\ ev.effective /\ runningAtPause /\ ~isCancelled)
        => scheduled # {}

\* C9: from a resize with a non-positive dimension until the next resize with
\* positive dimensions, no operation runs a render pass.
C9_InvalidViewportPauses == viewportInvalid => passes = <<>>

\* C10: a resize repeating the arguments of the resize just before it changes
\* nothing: resolutions, target sizes and contents, brush uniforms and the
\* scheduled ticks stay as they are, and no frame runs.
C10_ResizeIdempotent ==
    [][(ev'.op = "resize" /\ ev'.repeat) => (UNCHANGED progVars /\ passes' = <<>>)]_vars

\* C10 witness: the repeated resize happens while the loop runs and the
\* simulation field has been written.
C10_Witness ==
    /\ ev.op = "resize"
    /\ ev.repeat
    /\ scheduled # {}
    /\ physicsRenderTargetA.content > 0

\* the callbacks scheduled by the tick that ran in the last operation
Successors == {c \in scheduled : c.id = frame}

\* the pointer has been inactive for more than IDLE_TIMEOUT: it is not on the
\* canvas and its last move is that long ago
PointerInactiveLong == ~isMouseActive /\ now - lastPointerEvent > IDLE_TIMEOUT

\* C11: a tick schedules exactly one successor; the successor is the 100 ms
\* timer only if the medium is an image and the pointer has been inactive for
\* more than 2000 ms at that tick, and in every other case it is an animation
\* frame.
C11_IdleThrottling ==
    Ran("physics")
        => /\ Cardinality(Successors) = 1
           /\ \A c \in Successors :
                 \/ c.kind = "raf"
                 \/ /\ c.kind = "timer"
                    /\ c.delay = IDLE_FRAME_INTERVAL
                    /\ mediaState.type = "image"
                    /\ PointerInactiveLong

\* C11 witness: a tick on an image with the pointer long inactive has
\* scheduled the timer.
C11_Witness ==
    /\ ev.op = "tick"
    /\ mediaState.type = "image"
    /\ PointerInactiveLong
    /\ \E c \in Successors : c.kind = "timer"

\* the last operation was pointer activity or the request of a video
RestoringEvent(e, type) ==
    \/ e.op = "pointerMove"
    \/ e.op = "setProps" /\ e.effective /\ type = "video"

\* C12 as stated: right after updatePointer(x, y, true) or the request of a
\* video no low-rate timer tick is pending: whatever is scheduled is an
\* animation frame.
C12_ImmediateFullRate ==
    RestoringEvent(ev, mediaState.type) => \A c \in scheduled : c.kind = "raf"

\* C12 amended: pointer activity or the request of a video on an idle
\* controller leaves the pending timer tick pending, and the first tick that
\* runs with the pointer active or a video requested leaves idle mode and
\* schedules its successor as an animation frame.
C12_FullRateFromNextTick ==
    [][/\ (isIdle /\ RestoringEvent(ev', mediaState'.type))
            => (scheduled' = scheduled /\ isIdle')
       /\ (isIdle /\ ev'.op = "tick" /\ ev'.effective
              /\ (isMouseActive \/ mediaState.type = "video"))
            => (~isIdle' /\ scheduled' # {} /\ \A c \in scheduled' : c.kind = "raf")]_vars

\* C12 witness: the timer tick of an idle controller has run with the pointer
\* active and has scheduled an animation frame.
C12_Witness ==
    /\ ev.op = "tick"
    /\ wasIdle
    /\ isMouseActive
    /\ ~isIdle
    /\ \E c \in Successors : c.kind = "raf"

\* the field the last physics pass read and the field it wrote (the targets
\* have been swapped since)
PreviousField == physicsRenderTargetB
CurrentField == physicsRenderTargetA
Texels == DOMAIN CurrentField.texels

\* gl_FragColor of the last physics pass at texel p, before the frame buffer
\* rounds it to bytes
Written(p) == physicsFragmentShader(PreviousField, physicsMaterial, p[1], p[2])

\* the texel under the canvas centre
CentreTexel == <<CurrentField.width \div 2, CurrentField.height \div 2>>

\* the centre of texel p is farther from the canvas centre than the brush
\* radius (thousandths of a simulation pixel)
BeyondBrush(p) ==
    LET dx == 1000 * p[1] + 500 - CanvasCentre[1] \div PHYSICS_DOWNSAMPLE_FACTOR
        dy == 1000 * p[2] + 500 - CanvasCentre[2] \div PHYSICS_DOWNSAMPLE_FACTOR
        radius == physicsMaterial.uBrushSize \div 1000
    IN Abs(dx) > radius \/ Abs(dy) > radius \/ dx * dx + dy * dy > radius * radius

\* C13: on an all-zero field, a tick that runs with the pointer active at the
\* canvas centre leaves the centre texel with clear close to 1 (at least 0.9)
\* and water > 0, and every texel farther from the centre than the brush
\* radius at (0, 0, 0).
C13_WipeAtCentre ==
    (/\ Ran("physics")
     /\ isMouseActive
     /\ mousePosition = CanvasCentre
     /\ PreviousField.texels = UniformField(<<0, 0, 0>>))
        => /\ 10 * CurrentField.texels[CentreTexel][1] >= 9 * ByteMax
           /\ CurrentField.texels[CentreTexel][2] > 0
           /\ \A p \in Texels :
                 BeyondBrush(p) => CurrentField.texels[p] = <<0, 0, 0>>

\* C14: water contributes to drip at rate 0.01 per tick: a tick on a field
\* that holds a texel with water of at least 50/255 (so that 0.01 of it is
\* at least half a byte step) writes a field with drip > 0 somewhere.
C14_WaterSeedsDrip ==
    (Ran("physics") /\ \E p \in Texels : PreviousField.texels[p][2] >= 50)
        => \E p \in Texels : CurrentField.texels[p][3] > 0

\* C15, one tick of it: with the pointer inactive, a field whose only
\* non-zero drip is v at texel (x, y) becomes a field whose peak drip is
\* 0.985 v at texel (x, y - 2), two rows below, if that row is in the grid.
C15_DripFallsTwoRows ==
    \A q \in Texels :
        (/\ Ran("physics")
         /\ ~isMouseActive
         /\ q[2] - 2 >= 0
         /\ PreviousField.texels[q][3] > 0
         /\ \A p \in Texels : (p # q) => PreviousField.texels[p][3] = 0)
            => LET below == <<q[1], q[2] - 2>>
               IN /\ CurrentField.texels[below][3]
                        = RoundDiv(PreviousField.texels[q][3] * 985, 1000)
                  /\ \A p \in Texels :
                        (p # below) => CurrentField.texels[p][3]
                                          < CurrentField.texels[below][3]

\* the canvas aspect ratio is greater than the aspect ratio of the bound medium
CanvasWiderThanMedia ==
    /\ copyMaterial.uImageResolution[2] > 0
    /\ copyMaterial.uResolution[1] * copyMaterial.uImageResolution[2]
          > copyMaterial.uImageResolution[1] * copyMaterial.uResolution[2]

\* the coordinate of the medium the last copy pass sampled for the corner uv
CoverUv(uv) == sceneRenderTarget.imageUv[uv]

\* C16: when the copy pass runs with the canvas wider than the medium, the
\* four corners of the sharp texture map to coordinates inside [0, 1] with u
\* unchanged, and v in [0, 1] maps onto an interval centred on 0.5 of length
\* imageAspect / canvasAspect (to a millionth).
C16_CoverFitCropsVertically ==
    (Ran("copy") /\ CanvasWiderThanMedia)
        => LET low == CoverUv(<<0, 0>>)[2]
               high == CoverUv(<<0, UvOne>>)[2]
               length == (UvOne * copyMaterial.uImageResolution[1] * copyMaterial.uResolution[2])
                            \div (copyMaterial.uResolution[1] * copyMaterial.uImageResolution[2])
           IN /\ \A uv \in Corners :
                    /\ CoverUv(uv)[1] = uv[1]
                    /\ CoverUv(uv)[2] \in 0..UvOne
              /\ Abs((high - low) - length) <= 1
              /\ Abs((high + low) - UvOne) <= 1

\* the smoothed options as the shaders read them
SmoothedUniforms ==
    <<animatedProps, physicsMaterial.uRefrostRate, physicsMaterial.uBrushSize,
      mainMaterial.uBrushSize>>

\* the options setProps writes to the compositing shader
VisualUniforms ==
    <<mainMaterial.uChromaticAberration, mainMaterial.uReflectivity>>

\* after moves from before toward target without reaching it
Toward(before, after, target) ==
    IF before = target THEN after = before
    ELSE \/ before < after /\ after < target
         \/ target < after /\ after < before

\* C17 as stated: setProps leaves every value the shaders use where it was:
\* refrostRate, brushSize, chromaticAberration and reflectivity only start to
\* move with the following ticks.
C17_AllOptionsSmoothed ==
    [][(ev'.op = "setProps")
        => (SmoothedUniforms' = SmoothedUniforms /\ VisualUniforms' = VisualUniforms)]_vars

\* C17 amended: setProps leaves the refrostRate and brushSize the shaders use
\* where they were and writes chromaticAberration and reflectivity to their
\* uniforms at once; each tick then moves refrostRate and brushSize toward
\* their targets without reaching them, and the physics shader reads the
\* moved refrostRate.
C17_RatesSmoothed ==
    [][/\ (ev'.op = "setProps")
            => /\ SmoothedUniforms' = SmoothedUniforms
               /\ \E setting \in PropSettings :
                     /\ targetProps' = [refrostRate |-> setting.refrostRate,
                                        brushSize |-> setting.brushSize]
                     /\ VisualUniforms' = <<setting.chromaticAberration,
                                            setting.reflectivity>>
       /\ (passes' # <<>>)
            => /\ Toward(animatedProps.refrostRate, animatedProps'.refrostRate,
                         targetProps.refrostRate)
               /\ Toward(animatedProps.brushSize, animatedProps'.brushSize,
                         targetProps.brushSize)
               /\ physicsMaterial'.uRefrostRate = animatedProps'.refrostRate
               /\ VisualUniforms' = VisualUniforms]_vars

\* C17 witness: a tick has moved refrostRate part of the way from the default
\* to a new target.
C17_Witness ==
    /\ ev.op = "tick"
    /\ animatedProps.refrostRate # targetProps.refrostRate
    /\ animatedProps.refrostRate # DefaultSetting.refrostRate

\* C18: from pointer-leave or touch-end on, while the pointer stays inactive,
\* the raw pointer position is the off-canvas value (-1000, -1000) that the
\* smoothed position then converges to.
C18_LeaveResetsPointer ==
    ~isMouseActive => mousePosition = Fresh.mousePosition

\* the pointer uniform of the physics shader is on the centre of the canvas
BrushOverCentre ==
    physicsMaterial.uMouse = <<1000 * CentreTexel[1] + 500, 1000 * CentreTexel[2] + 500>>

\* C19: a tick with the pointer inactive adds neither clearing nor water: at
\* every texel the water written is at most the water read and the clear
\* written at most max(clear read, 0.9 * drip written), also as stored; an
\* all-zero field stays all-zero.
C19_InactiveAddsNothing ==
    (Ran("physics") /\ ~isMouseActive)
        => /\ \A p \in Texels :
                 LET before == texture2D(PreviousField, p[1], p[2])
                     after == Written(p)
                 IN /\ after.g <= before.g
                    /\ 10 * after.r <= Max(10 * before.r, 9 * after.b)
                    /\ CurrentField.texels[p][2] <= PreviousField.texels[p][2]
           /\ (\A p \in Texels : PreviousField.texels[p] = <<0, 0, 0>>)
                 => (\A p \in Texels : CurrentField.texels[p] = <<0, 0, 0>>)

\* C19 witness: a tick ran on an all-zero field with the pointer inactive
\* but its smoothed position on the canvas centre, and the field is still
\* all-zero.
C19_Witness ==
    /\ Ran("physics")
    /\ ~isMouseActive
    /\ BrushOverCentre
    /\ \A p \in Texels : PreviousField.texels[p] = <<0, 0, 0>>
    /\ \A p \in Texels : CurrentField.texels[p] = <<0, 0, 0>>

\* C20: every channel the physics pass writes lies in [0, 1], and every byte
\* stored in the field in 0..255.
C20_ClampInvariant ==
    Ran("physics")
        => \A p \in Texels :
              /\ Written(p).r \in 0..One
              /\ Written(p).g \in 0..One
              /\ Written(p).b \in 0..One
              /\ \A i \in 1..3 : CurrentField.texels[p][i] \in 0..ByteMax

\* C20 witness: the brush has wiped a texel that was frosted and held water
\* 1.0; its water is written as 1.0, not more.
C20_Witness ==
    /\ Ran("physics")
    /\ isMouseActive
    /\ BrushOverCentre
    /\ PreviousField.texels[CentreTexel] = <<0, ByteMax, 0>>
    /\ CurrentField.texels[CentreTexel][1] > 0
    /\ CurrentField.texels[CentreTexel][2] = ByteMax

\* what is left of the way of refrostRate to its target, the way it had to go
\* when the target was set, and the tick bodies run since
Gap == Abs(targetProps.refrostRate - animatedProps.refrostRate)
GapAtChange == Abs(targetProps.refrostRate - retarget.from)
TicksSinceChange == frame - retarget.at

\* C21 as stated: from the 59th tick after a new refrostRate target was set,
\* what is left of the gap is at most 1% of the gap at the time of the change.
C21_WithinOnePercentAfter59 ==
    (Retargeted /\ TicksSinceChange >= 59) => 100 * Gap <= GapAtChange

\* C21 amended: from the 60th tick after a new refrostRate target was set,
\* what is left of the gap is at most 1% of the gap at the time of the change;
\* at the 59th tick more than 1% of it is left.
C21_WithinOnePercentAfter60 ==
    Retargeted
        => /\ (TicksSinceChange >= 60) => 100 * Gap <= GapAtChange
           /\ (TicksSinceChange = 59) => 100 * Gap > GapAtChange

\* C21 witness: 60 ticks after the change refrostRate is within 1% of its
\* target and has not reached it.
C21_Witness ==
    /\ Retargeted
    /\ TicksSinceChange = 60
    /\ Gap > 0
    /\ 100 * Gap <= GapAtChange

\* the operation that logged ps ran the pass, and the entry it logged for it
RanIn(ps, pass) == \E i \in 1..Len(ps) : ps[i].pass = pass
PassIn(ps, pass) == ps[CHOOSE i \in 1..Len(ps) : ps[i].pass = pass]

\* C22: the physics pass of every tick reads the target physicsRenderTargetA
\* names before the tick and writes the other one, never the same; after the
\* tick the two names are swapped, so that physicsRenderTargetA is the target
\* just written; the compositing pass of the tick samples that target; and no
\* operation other than a tick (resize, pause, resume, a load) changes which
\* target a name stands for, so that the next tick reads it as its history.
C22_DoubleBuffering ==
    [][IF RanIn(passes', "physics")
       THEN LET physics == PassIn(passes', "physics")
            IN /\ physics.src = physicsRenderTargetA.id
               /\ physics.dst = physicsRenderTargetB.id
               /\ physics.src # physics.dst
               /\ physicsMaterial'.uPreviousFrame = physics.src
               /\ physicsRenderTargetA'.id = physics.dst
               /\ physicsRenderTargetB'.id = physics.src
               /\ physicsRenderTargetA'.content = frame'
               /\ RanIn(passes', "main")
                     => /\ PassIn(passes', "main").src = physics.dst
                        /\ mainMaterial'.uPhysicsState = physics.dst
       ELSE /\ physicsRenderTargetA'.id = physicsRenderTargetA.id
            /\ physicsRenderTargetB'.id = physicsRenderTargetB.id]_vars

\* C22 witness: resume() has run a frame after earlier frames and a pause,
\* and the frame was composited.
C22_Witness ==
    /\ ev.op = "resume"
    /\ frame >= 2
    /\ Ran("physics")
    /\ Ran("main")

\* size is Math.max(1, Math.round(n / d)): the integer nearest to n / d,
\* halves up, and 1 where that is 0
IsDownsampled(size, n, d) ==
    IF 2 * n < d THEN size = 1
    ELSE (2 * size - 1) * d <= 2 * n /\ 2 * n < (2 * size + 1) * d

\* width and height of a render target
SizeOf(t) == <<t.width, t.height>>

\* C23: once a valid resize has happened, in every state (after buffer swaps
\* and rejected resizes too) the two simulation targets have one size, the
\* physics uResolution, which is max(1, round(w / 4)) x max(1, round(h / 4));
\* the two blur targets have one size, the blur uResolution, which is
\* max(1, round(w / 8)) x max(1, round(h / 8)); the sharp target is w x h,
\* with w x h the arguments of the last valid resize; and no pass is rendered
\* before that.
C23_ResolutionSetConsistent ==
    /\ (ev.op = "resize" /\ ev.effective) => rendererSize = <<ev.w, ev.h>>
    /\ passes # <<>> => hasSizedOnce
    /\ hasSizedOnce
          => /\ SizeOf(physicsRenderTargetA) = SizeOf(physicsRenderTargetB)
             /\ SizeOf(physicsRenderTargetA) = physicsMaterial.uResolution
             /\ DOMAIN physicsRenderTargetA.texels = DOMAIN physicsRenderTargetB.texels
             /\ IsDownsampled(physicsRenderTargetA.width, rendererSize[1],
                              PHYSICS_DOWNSAMPLE_FACTOR)
             /\ IsDownsampled(physicsRenderTargetA.height, rendererSize[2],
                              PHYSICS_DOWNSAMPLE_FACTOR)
             /\ SizeOf(blurRenderTargetA) = SizeOf(blurRenderTargetB)
             /\ SizeOf(blurRenderTargetA) = blurMaterial.uResolution
             /\ IsDownsampled(blurRenderTargetA.width, rendererSize[1], DOWNSAMPLE_FACTOR)
             /\ IsDownsampled(blurRenderTargetA.height, rendererSize[2], DOWNSAMPLE_FACTOR)
             /\ SizeOf(sceneRenderTarget) = rendererSize
             /\ copyMaterial.uResolution = rendererSize
             /\ mainMaterial.uResolution = rendererSize

\* C23 witness: a tick renders after a resize to 6 x 6 (simulation 2 x 2,
\* blur 1 x 1) and a rejected resize, the simulation targets swapped.
C23_Witness ==
    /\ ev.op = "tick"
    /\ Ran("main")
    /\ viewportInvalid
    /\ rendererSize = <<6, 6>>
    /\ physicsRenderTargetA.id = 2
    /\ SizeOf(physicsRenderTargetA) = <<2, 2>>
    /\ SizeOf(blurRenderTargetB) = <<1, 1>>

\* C24: the step that runs the first tick body ends sized by a resize with
\* positive dimensions and with a loaded medium bound, whichever of the two
\* came last; before both have happened no tick body has run.
C24_FirstTickSizedAndReady ==
    [][(frame = 0 /\ frame' > 0)
        => /\ hasSizedOnce'
           /\ physicsMaterial'.uResolution[1] > 0 /\ physicsMaterial'.uResolution[2] > 0
           /\ isMediaReady'
           /\ copyMaterial'.uTexture # NoTexture
           /\ ev'.op \in {"resize", "resolve", "resume"}]_vars

\* C24 witness: the medium was bound first and the first valid resize has
\* run the first tick body.
C24_Witness ==
    /\ ev.op = "resize"
    /\ frame = 1
    /\ Ran("physics")
    /\ Ran("main")

\* the positions in the log of the last operation of the request of the next
\* callback, and of everything else a tick body does
Requests == {i \in 1..Len(passes) : passes[i].pass = "schedule"}
BodySteps == {i \in 1..Len(passes) : passes[i].pass # "schedule"}

\* C25 as stated: at most one tick callback is pending at any time, and a
\* tick body has run to completion when the next tick is scheduled: the
\* request of the next callback comes after every other step of the body.
C25_OneChainScheduledLast ==
    /\ Cardinality(scheduled) <= 1
    /\ \A i \in Requests : \A j \in BodySteps : j < i

\* C25 amended: at most one tick callback is pending at any time; every
\* operation runs at most one tick body, and the body requests its one
\* successor first, before the smoothing and the passes.
C25_OneChainScheduledFirst ==
    /\ Cardinality(scheduled) <= 1
    /\ Cardinality(Requests) <= 1
    /\ passes # <<>> => (Requests = {1} /\ BodySteps # {})

\* C25 witness: a second load has completed while the loop was running, after
\* a pause and a resume, and one callback is pending.
C25_Witness ==
    /\ ev.op = "resolve"
    /\ ev.req = 2
    /\ ev.effective
    /\ runningAtPause
    /\ ~isPaused
    /\ passes = <<>>
    /\ Cardinality(scheduled) = 1

\* C26: whenever the controller is sized, its medium is ready and it is
\* neither paused nor disposed, a tick callback is pending.
C26_LoopAlive ==
    (hasSizedOnce /\ isMediaReady /\ ~isPaused /\ ~isCancelled) => scheduled # {}

\* C26 witness: the loop was paused while running, a new medium was requested,
\* resume() found it not ready, and its completion has restarted the loop.
C26_Witness ==
    /\ ev.op = "resolve"
    /\ ev.req = 2
    /\ runningAtPause
    /\ ~isPaused
    /\ hasSizedOnce
    /\ isMediaReady
    /\ Ran("physics")
    /\ scheduled # {}

\* C27: with the pointer inactive and refrostRate steady at a value above 0,
\* frost returns: a tick never leaves a field that is clear somewhere exactly
\* as it was (a tick that does would leave it so for ever, the pointer
\* staying inactive, and clear would never reach 0).
C27_FrostReturns ==
    (/\ Ran("physics")
     /\ ~isMouseActive
     /\ physicsMaterial.uRefrostRate > 0
     /\ animatedProps.refrostRate = targetProps.refrostRate
     /\ \E p \in Texels : PreviousField.texels[p][1] > 0)
        => CurrentField.texels # PreviousField.texels

\* the brush of the last physics pass at texel p
BrushAt(p) == brush(physicsMaterial, p[1], p[2])

\* the water the last physics pass computed at texel p, as its refrost step
\* read it: wiped and evaporated, not yet clamped
WaterComputed(p) ==
    LET state == texture2D(PreviousField, p[1], p[2])
        frostRemoved == Max(0, (Max(state.r, BrushAt(p)) - state.r) \div 2)
    IN ((state.g + frostRemoved) * 970) \div 1000

\* the clear written at texel p is at most max(clear read, brush, 0.9 * drip
\* written) plus extra
ClearBoundedBy(p, extra) ==
    10 * Written(p).r
        <= Max(Max(10 * texture2D(PreviousField, p[1], p[2]).r, 10 * BrushAt(p)),
               9 * Written(p).b) + 10 * extra

mediaVars == <<loadMediaRequestId, mediaState, isMediaReady, inflight, copyMaterial,
               videoElement, disposed, isCancelled, isPaused, isIdle, hasSizedOnce,
               animationFrameId, scheduled, frame, lastInteractionTime,
               physicsRenderTargetA, physicsRenderTargetB, sceneRenderTarget>>

\* C29: a loadMedia whose type and source are those of the last accepted
\* request changes nothing, starts no load, takes no new request id and calls
\* no callback, whether that request is pending, bound or has failed.
C29_RepeatedRequestIsNoOp ==
    [][(ev'.op = "setProps" /\ ev'.repeat)
        => (UNCHANGED mediaVars /\ calls' = <<>> /\ passes' = <<>>)]_vars

\* C29 witness: the medium of a failed load has been requested again and
\* nothing is in flight.
C29_Witness ==
    /\ ev.op = "setProps"
    /\ ev.repeat
    /\ LatestLoadFailed
    /\ inflight = {}
    /\ ~isCancelled

\* C30: in every state of a controller that is not disposed, a pending tick
\* callback is a timer exactly when isIdle is true and an animation frame
\* exactly when it is false, and animationFrameId is its handle: pause()
\* cancels it with the primitive that scheduled it.
C30_CancelMatchesSchedule ==
    ~isCancelled
        => \A c \in scheduled :
              /\ (c.kind = "timer") <=> isIdle
              /\ (c.kind = "raf") <=> ~isIdle
              /\ c.id = animationFrameId

\* C30 witness: after a pause and a resume the loop has gone idle again and
\* its timer is pending, the pointer active again since.
C30_Witness ==
    /\ ~isCancelled
    /\ ~isPaused
    /\ runningAtPause
    /\ isIdle
    /\ isMouseActive
    /\ \E c \in scheduled : c.kind = "timer"

====
